---- MODULE Spec2Model ----
(***************************************************************************)
(* A model of bot.py: a Telegram bot that downloads YouTube videos.        *)
(*                                                                         *)
(* The conversation state of python-telegram-bot's ConversationHandler is  *)
(* kept per (chat_id, user_id); context.user_data is kept per user_id; the *)
(* directory "downloads" is shared by every handler.  The dispatcher runs  *)
(* one handler at a time (no run_async), so every handler is one action.   *)
(*                                                                         *)
(* The calls that may raise are YouTube(url)/yt.title, yt.streams,         *)
(* stream.filesize, stream.download, the ffmpeg run, reply_video or        *)
(* reply_audio, and reply_text; for an edited message update.message is    *)
(* None and every use of it raises.  pytube is taken as of its             *)
(* version 10 and later: a StreamQuery is a sequence (empty ones are       *)
(* falsy), order_by sorts labels by their digits, YouTube(url) only parses *)
(* the URL and the first network request is made by yt.title.              *)
(***************************************************************************)
EXTENDS Integers, Sequences, FiniteSets, TLC

(***************************************************************************)
(* Conversation states (bot.py:12) and ConversationHandler.END.            *)
(***************************************************************************)
URL == 0
FORMAT == 1
RESOLUTION == 2
END == -1

None == "None"

(***************************************************************************)
(* Conversation keys (chat_id, user_id): user u1 may talk to the bot in a  *)
(* private chat c1 and in a group chat c2, user u2 in the group chat c2.   *)
(***************************************************************************)
Users == {"u1", "u2"}
Keys == {<<"c1", "u1">>, <<"c2", "u1">>, <<"c2", "u2">>}
UserOf(key) == key[2]
PrivateChat == {<<"c1", "u1">>}
TwoChats == {<<"c1", "u1">>, <<"c2", "u1">>}
TwoUsers == {<<"c1", "u1">>, <<"c2", "u2">>}

(***************************************************************************)
(* The size limit of download_video and download_audio: size_mb > 50 with  *)
(* size_mb = filesize / (1024 * 1024).  The division by 2^20 is exact in   *)
(* floating point for every file size below 2^53, so the comparison is the *)
(* comparison of filesize with 50 * 1024 * 1024 bytes.                     *)
(***************************************************************************)
MB == 1024 * 1024
LimitMB == 50
LimitBytes == LimitMB * MB

(***************************************************************************)
(* Provider data: what pytube returns for each URL.  progressive is the    *)
(* list of progressive mp4 streams in provider order, audio the list of    *)
(* audio-only streams in provider order (subtype is the file extension).   *)
(***************************************************************************)
Stream(ref, res, fps, size) ==
    [of |-> ref, resolution |-> res, fps |-> fps, filesize |-> size, subtype |-> "mp4"]
Audio(ref, ext, size) ==
    [of |-> ref, resolution |-> None, fps |-> 0, filesize |-> size, subtype |-> ext]

Refs == {"A", "B", "C", "D"}
BadRef == "bad"

Title(ref) ==
    IF ref = "A" THEN <<"t1">> ELSE IF ref = "B" THEN <<"t2">>
    ELSE IF ref = "C" THEN <<"t3">> ELSE <<"t4">>

Progressive(ref) ==
    IF ref = "A" THEN << Stream(ref, "720p", 60, 10 * MB),
                         Stream(ref, None, 30, 5 * MB),
                         Stream(ref, "360p", 30, LimitBytes),
                         Stream(ref, "720p", 30, LimitBytes + 1) >>
    ELSE IF ref = "C" THEN << Stream(ref, "144p", 30, 2 * MB) >>
    ELSE << >>

AudioOnly(ref) ==
    IF ref = "A" THEN << Audio(ref, "mp4", LimitBytes), Audio(ref, "webm", 3 * MB) >>
    ELSE IF ref = "B" THEN << Audio(ref, "mp4", LimitBytes + 1) >>
    ELSE IF ref = "C" THEN << Audio(ref, "webm", 4 * MB) >>
    ELSE << >>

(***************************************************************************)
(* conversations: the state of each conversation (END: none is open);      *)
(* user_data: context.user_data of each user; files: the paths present in  *)
(* the directory "downloads"; senders: the conversation keys that updates  *)
(* arrive from in this run; updates: the updates the users send in this   *)
(* run; refusing: whether Telegram may refuse a reply in this run; last:   *)
(* see below; probe: a list of streams given to the enumeration of         *)
(* select_video on its own, and the catalog it made of it (SpecCatalog);   *)
(* inbox: the number of updates waiting in the update queue, and running:  *)
(* the updates whose callback has been started and has not returned        *)
(* (SpecDispatch; the other specifications take an update and run its      *)
(* callback in one step).                                                  *)
(***************************************************************************)
VARIABLES conversations, user_data, files, senders, updates, refusing, last,
          probe, inbox, running

vars == <<conversations, user_data, files, senders, updates, refusing, last,
          probe, inbox, running>>

\* user_data of a user: the keys 'video' and 'streams', and of the objects
\* they hold what a callback can tell: fresh, the stored streams are those of
\* the stored YouTube object; sized, the positions of the stored streams
\* whose size has been read (pytube keeps a size it has read)
EmptyData == [video |-> None, has_streams |-> FALSE, streams |-> << >>,
              fresh |-> FALSE, sized |-> {}]

(***************************************************************************)
(* last records the update the dispatcher processed last: the conversation *)
(* key, the message text, the conversation state it arrived in,            *)
(* the callback that ran ("none" when no handler matched), the branch it   *)
(* came to, whether it raised, the text replies Telegram accepted (the one *)
(* of the error callback too), what it sent as a file, the                 *)
(* file size the size check saw (-1 when it was not reached), the paths    *)
(* stream.download was called for and the paths the callback wrote.        *)
(***************************************************************************)
NoSize == 0 - 1

NoUpdate == [key |-> <<"", "">>, text |-> << >>, state |-> END,
             handler |-> "none", outcome |-> "none", raised |-> FALSE,
             replies |-> << >>, sent |-> "none", size |-> NoSize,
             fetched |-> {}, written |-> {}]

NoProbe == [input |-> << >>, output |-> << >>, done |-> TRUE]

(***************************************************************************)
(* Updates.  A message text is kept as the list of its parts between '_'   *)
(* characters, so that '_' in command is Len(text) > 1 and                 *)
(* command.split('_')[-1] is the last part.                                *)
(***************************************************************************)
CommandTexts == { <<"/start">>, <<"/video">>, <<"/audio">>, <<"/cancel">>,
                  <<"/res", "720p">>, <<"/res", "360p">>, <<"/res", "144p">>,
                  <<"/res", "1080p">>, <<"/res", "Unknown">>, <<"/res", "">> }

Updates == { [is_command |-> TRUE, text |-> t, edited |-> e] :
                t \in CommandTexts, e \in BOOLEAN }
           \cup { [is_command |-> FALSE, text |-> <<r>>, edited |-> e] :
                    r \in Refs \cup {BadRef}, e \in BOOLEAN }

\* the commands, and the text messages that name one of refs
Sending(refs) == { u \in Updates : u.is_command \/ u.text[1] \in refs }

\* for the runs of two conversations: new messages, video A and an unknown
\* URL, and of the selectors those of the listing of A and /res_1080p
TwoSend ==
    { u \in Sending({"A", BadRef}) :
        /\ ~u.edited
        /\ u.text \notin {<<"/res", "144p">>, <<"/res", "Unknown">>, <<"/res", "">>} }


(***************************************************************************)
(* The handler lists of the ConversationHandler (bot.py:178-189) and the   *)
(* handler telegram.ext.ConversationHandler picks for an update: without a *)
(* conversation the entry points, within one the handlers of its state and *)
(* then the fallbacks (allow_reentry is off, so the entry points are not   *)
(* tried within a conversation).  "none": no handler, the update is        *)
(* dropped.                                                                *)
(***************************************************************************)
IsCommand(upd, name) == upd.is_command /\ upd.text = <<name>>

EntryPoints(upd) == IF IsCommand(upd, "/start") THEN "start" ELSE "none"

StateHandlers(state, upd) ==
    IF state = URL THEN
        IF ~upd.is_command THEN "receive_url" ELSE "none"
    ELSE IF state = FORMAT THEN
        IF IsCommand(upd, "/video") THEN "select_video"
        ELSE IF IsCommand(upd, "/audio") THEN "download_audio"
        ELSE "none"
    ELSE IF state = RESOLUTION THEN
        IF upd.is_command THEN "download_video" ELSE "none"
    ELSE "none"

Fallbacks(upd) == IF IsCommand(upd, "/cancel") THEN "cancel" ELSE "none"

\* a ConversationHandler with allow_reentry=True
CheckUpdateReentry(state, upd) ==
    IF EntryPoints(upd) # "none" THEN EntryPoints(upd)
    ELSE IF state = END THEN "none"
    ELSE IF StateHandlers(state, upd) # "none" THEN StateHandlers(state, upd)
    ELSE Fallbacks(upd)

\* a ConversationHandler that tries its fallbacks before the state's handlers
CheckUpdateFallbacksFirst(state, upd) ==
    IF state = END THEN EntryPoints(upd)
    ELSE IF Fallbacks(upd) # "none" THEN Fallbacks(upd)
    ELSE StateHandlers(state, upd)

CheckUpdate(state, upd) ==
    IF state = END THEN EntryPoints(upd)
    ELSE IF StateHandlers(state, upd) # "none" THEN StateHandlers(state, upd)
    ELSE Fallbacks(upd)

(***************************************************************************)
(* yt.streams.filter(progressive=True, file_extension='mp4')               *)
(*   .order_by('resolution').desc()   (bot.py:44)                          *)
(* pytube's order_by drops the streams whose attribute is None and sorts   *)
(* the rest with sorted() (stable, ascending) on the integer made of the   *)
(* digits of the label; desc() reverses the list.                          *)
(***************************************************************************)
ResValue(res) ==
    IF res = "144p" THEN 144
    ELSE IF res = "360p" THEN 360
    ELSE IF res = "720p" THEN 720
    ELSE IF res = "1080p" THEN 1080
    ELSE 0

RECURSIVE FilterHasResolution(_)
FilterHasResolution(seq) ==
    IF seq = << >> THEN << >>
    ELSE IF Head(seq).resolution # None
         THEN <<Head(seq)>> \o FilterHasResolution(Tail(seq))
         ELSE FilterHasResolution(Tail(seq))

\* an insertion before the elements of equal key: equal labels change places
RECURSIVE InsertSortedBefore(_, _)
InsertSortedBefore(sorted, s) ==
    IF sorted = << >> THEN <<s>>
    ELSE IF ResValue(Head(sorted).resolution) < ResValue(s.resolution)
         THEN <<Head(sorted)>> \o InsertSortedBefore(Tail(sorted), s)
         ELSE <<s>> \o sorted

\* insert s after every element whose key is not greater: a stable sort
RECURSIVE InsertSorted(_, _)
InsertSorted(sorted, s) ==
    IF sorted = << >> THEN <<s>>
    ELSE IF ResValue(Head(sorted).resolution) <= ResValue(s.resolution)
         THEN <<Head(sorted)>> \o InsertSorted(Tail(sorted), s)
         ELSE <<s>> \o sorted

RECURSIVE SortedAsc(_)
SortedAsc(seq) ==
    IF seq = << >> THEN << >>
    ELSE InsertSorted(SortedAsc(SubSeq(seq, 1, Len(seq) - 1)), seq[Len(seq)])

Reversed(seq) == [i \in 1..Len(seq) |-> seq[Len(seq) + 1 - i]]

OrderByResolutionDesc(seq) == Reversed(SortedAsc(FilterHasResolution(seq)))

(***************************************************************************)
(* Scratch paths.  stream.download(output_path="downloads") writes         *)
(* downloads/<title>.<subtype>; the session takes no part in the name.  A  *)
(* path is kept as the list of its pieces, every '.mp4', '.mp3' and        *)
(* '.webm' in it a piece of its own: downloads/t1.mp4 is <<"t1", ".mp4">>. *)
(* pytube takes the dots out of a title, so the titles of the provider     *)
(* data are one piece each.                                                *)
(***************************************************************************)
Extension(subtype) == IF subtype = "mp4" THEN ".mp4" ELSE ".webm"

DownloadPath(stream) == Title(stream.of) \o <<Extension(stream.subtype)>>

\* file_path.replace('.mp4', '.mp3'): every '.mp4' of the path   (bot.py:128)
Mp3Path(file_path) ==
    [i \in 1..Len(file_path) |-> IF file_path[i] = ".mp4" THEN ".mp3" ELSE file_path[i]]

(***************************************************************************)
(* The size check of bot.py:88-89 and bot.py:131-132.                      *)
(***************************************************************************)
\* a size check in whole megabytes
ExceedsLimitWholeMB(filesize) == filesize \div MB > LimitMB
\* a size check that rejects the limit itself
ExceedsLimitInclusive(filesize) == filesize >= LimitMB * MB

ExceedsLimit(filesize) == filesize > LimitMB * MB

(***************************************************************************)
(* The start states.  Scratch(ref): the paths the callbacks write for a    *)
(* video, those of its progressive streams that have a resolution, that of *)
(* its first audio-only stream and, when that stream is within the limit,  *)
(* that of its mp3 file.  Leftovers(refs): what earlier runs of the bot    *)
(* with these videos can have left in "downloads".  A run starts with the  *)
(* leftovers of the videos its updates name.                               *)
(***************************************************************************)
Scratch(ref) ==
    LET listed == OrderByResolutionDesc(Progressive(ref))
        audio == AudioOnly(ref)
    IN  { DownloadPath(listed[i]) : i \in 1..Len(listed) }
        \cup (IF audio = << >> THEN {}
              ELSE IF ExceedsLimit(Head(audio).filesize) THEN {DownloadPath(Head(audio))}
              ELSE {DownloadPath(Head(audio)), Mp3Path(DownloadPath(Head(audio)))})

Leftovers(refs) == SUBSET UNION { Scratch(ref) : ref \in refs }

\* the videos the text messages of a set of updates name
Named(sendable) == { u.text[1] : u \in { v \in sendable : ~v.is_command } } \cap Refs

\* the bot after main() has started polling, with the chats that will write,
\* the updates they will send and whether Telegram may refuse a reply.
\* Conversations and user_data are kept in memory and start empty; the
\* directory "downloads" is made when it is missing and never emptied
\* (bot.py:196-197), so it holds what earlier runs, with the videos of this
\* run, have left in it.
Started(chats, sendable, refuses) ==
    /\ conversations = [k \in Keys |-> END]
    /\ user_data = [u \in Users |-> EmptyData]
    /\ files \in Leftovers(Named(sendable))
    /\ senders = chats
    /\ updates = sendable
    /\ refusing = refuses
    /\ last = NoUpdate
    /\ inbox = 0
    /\ running = {}

Init == Started(PrivateChat, Updates, TRUE) /\ probe = NoProbe
InitChats == Started(TwoChats, TwoSend, TRUE) /\ probe = NoProbe
\* in the runs of two users Telegram takes every reply
InitUsers == Started(TwoUsers, TwoSend, FALSE) /\ probe = NoProbe

(***************************************************************************)
(* What a callback returns and does: the state it returns (NoState when it *)
(* raises), the user_data and the downloads directory it leaves, and what  *)
(* last records of it.  The outcome names the branch the callback came to: *)
(* the branch of a reply stays the outcome when that reply is lost.        *)
(***************************************************************************)
NoState == 0 - 2

Result(state, data, fs, outcome, replies, sent, size, fetched, written) ==
    [state |-> state, data |-> data, files |-> fs, outcome |-> outcome,
     replies |-> replies, sent |-> sent, size |-> size,
     fetched |-> fetched, written |-> written]

Reply(state, data, fs, outcome, reply) ==
    Result(state, data, fs, outcome, <<reply>>, "none", NoSize, {}, {})

(***************************************************************************)
(* The call that raises while a callback runs, if any.                     *)
(*   resolve: YouTube(url)                     streams: yt.streams         *)
(*   title: yt.title, read for the reply once user_data['video'] is set    *)
(*   filesize: stream.filesize, read for the listing once                  *)
(*             user_data['streams'] is set, or by download_video for a     *)
(*             stream whose size no listing got to read (download_audio    *)
(*             reads the size stream.download has read and kept)           *)
(*   download: stream.download, leaving no file                            *)
(*   download_partial: stream.download, leaving the file it had opened     *)
(*   transcode: the ffmpeg run, leaving no output file                     *)
(*   transcode_partial: the ffmpeg run, leaving a truncated output file    *)
(*   overwrite: no call raises, and the ffmpeg at hand writes its output   *)
(*              over its input when the two paths are one (ffmpeg as       *)
(*              released refuses and exits with an error)                  *)
(*   send: reply_video or reply_audio                                      *)
(* Besides, reply_text raises when Telegram cannot be reached: lost is the *)
(* set of the replies it raises for.  Within a try block the except clause *)
(* then sends the error reply; when reply_text raises in an except clause  *)
(* or outside the try block, the callback raises.  "message" in lost: the  *)
(* update is an edited message, update.message is None, and every          *)
(* update.message.text and update.message.reply_... raises.                *)
(***************************************************************************)
Faults == {"none", "resolve", "title", "streams", "filesize", "download",
           "download_partial", "transcode", "transcode_partial", "overwrite",
           "send"}

Progress == {"downloaded"}
Answers == {"welcome", "got_it", "no_video_selected", "no_mp4_streams",
            "available_resolutions", "no_video_or_streams",
            "invalid_resolution_command", "no_stream_found", "exceeds_limit",
            "done", "no_audio_stream", "cancelled"}
Errors == {"error_invalid_url", "error_fetching_streams", "error_downloading",
           "error_processing_audio"}
Callback == {"an_error_occurred"}

\* what raises for an edited message
NoMessage == Progress \cup Answers \cup Errors \cup Callback \cup {"message"}

\* the outages an action tries: for each kind of reply, all or none lost
Outages(kinds) == { UNION chosen : chosen \in SUBSET kinds }

\* the callback raises; outcome: how far it had come
Raise(data, fs, outcome, replies, sent, size, fetched, written) ==
    Result(NoState, data, fs, outcome, replies, sent, size, fetched, written)

\* update.message.text of an edited message
NoText(data, fs) == Raise(data, fs, "no_message", << >>, "none", NoSize, {}, {})

\* a reply_text outside a try block, followed by return state
Said(state, data, fs, outcome, reply, lost) ==
    IF reply \in lost
    THEN Raise(data, fs, outcome, << >>, "none", NoSize, {}, {})
    ELSE Reply(state, data, fs, outcome, reply)

\* an except clause: the error reply, followed by return state
Except(state, data, fs, outcome, replies, sent, size, fetched, written, reply, lost) ==
    IF reply \in lost
    THEN Raise(data, fs, outcome, replies, sent, size, fetched, written)
    ELSE Result(state, data, fs, outcome, Append(replies, reply), sent, size,
                fetched, written)

\* an except clause reached before anything was fetched or sent
Caught(state, data, fs, outcome, reply, lost) ==
    Except(state, data, fs, outcome, << >>, "none", NoSize, {}, {}, reply, lost)

\* bot.py:15-19
start(data, fs, lost) == Said(URL, data, fs, "ok", "welcome", lost)

\* a receive_url that ends the conversation when the URL cannot be used
UrlErrorStateEnd == END

\* return URL   (bot.py:33)
UrlErrorState == URL

\* bot.py:22-33
receive_url(data, fs, url, fault, lost) ==
    IF "message" \in lost
    THEN NoText(data, fs)
    ELSE IF url \in Refs /\ fault # "resolve"
    THEN LET stored == [data EXCEPT !.video = url, !.fresh = FALSE]
         IN  IF fault = "title"
             THEN Caught(UrlErrorState, stored, fs, "error", "error_invalid_url", lost)
             ELSE IF "got_it" \in lost
             THEN Caught(UrlErrorState, stored, fs, "reply_error", "error_invalid_url", lost)
             ELSE Reply(FORMAT, stored, fs, "ok", "got_it")
    ELSE Caught(UrlErrorState, data, fs, "error", "error_invalid_url", lost)

\* a select_video that lists the streams without keeping them
StoreNothing(data, streams) == data

\* context.user_data['streams'] = streams   (bot.py:50)
StoreStreams(data, streams) == [data EXCEPT !.has_streams = TRUE, !.streams = streams]

\* bot.py:36-63; with the fault "filesize" the size of the stream at position
\* at cannot be read (bot.py:55), unless an earlier listing of the same
\* YouTube object has read it
select_video(data, fs, fault, at, lost) ==
    IF data.video = None
    THEN Said(URL, data, fs, "no_video", "no_video_selected", lost)
    ELSE IF fault = "streams"
    THEN Caught(URL, data, fs, "error", "error_fetching_streams", lost)
    ELSE LET streams == OrderByResolutionDesc(Progressive(data.video))
             cached == IF data.has_streams /\ data.fresh THEN data.sized ELSE {}
             fails == fault = "filesize" /\ at \in (1..Len(streams)) \ cached
             stored == [StoreStreams(data, streams) EXCEPT
                           !.fresh = TRUE,
                           !.sized = IF fails THEN cached \cup (1..(at - 1))
                                     ELSE 1..Len(streams)]
         IN  IF streams = << >>
             THEN IF "no_mp4_streams" \in lost
                  THEN Caught(URL, data, fs, "no_streams", "error_fetching_streams", lost)
                  ELSE Reply(URL, data, fs, "no_streams", "no_mp4_streams")
             ELSE IF fails \/ "available_resolutions" \in lost
             THEN Caught(URL, stored, fs, "error", "error_fetching_streams", lost)
             ELSE Reply(RESOLUTION, stored, fs, "ok", "available_resolutions")

\* res = stream.resolution or "Unknown": the label the listing shows for a
\* stream, and the command it shows, /res_<label>   (bot.py:53, 56)
Label(stream) == IF stream.resolution = None THEN "Unknown" ELSE stream.resolution

ListedCommand(stream) == <<"/res", Label(stream)>>

\* a selection that takes the head of the list whatever the label
MatchingAny(streams, resolution) == streams

\* a selection that takes the last stream with the label
MatchingLast(streams, resolution) ==
    Reversed(SelectSeq(streams, LAMBDA s : s.resolution = resolution))

\* next((s for s in streams if s.resolution == resolution), None)   (bot.py:82)
Matching(streams, resolution) == SelectSeq(streams, LAMBDA s : s.resolution = resolution)

\* the state download_video returns after the "Done" reply (bot.py:107) and
\* from its except clause (bot.py:110)
VideoDoneStateStay == RESOLUTION
VideoDoneState == URL
VideoErrorStateUrl == URL
VideoErrorState == RESOLUTION

\* bot.py:66-110
download_video(data, fs, text, fault, lost) ==
    IF data.video = None \/ ~data.has_streams \/ data.streams = << >>
    THEN Said(URL, data, fs, "no_selection", "no_video_or_streams", lost)
    ELSE IF "message" \in lost
    THEN NoText(data, fs)
    ELSE IF Len(text) <= 1 \/ text[Len(text)] = ""
    THEN Said(RESOLUTION, data, fs, "invalid_command", "invalid_resolution_command", lost)
    ELSE LET resolution == text[Len(text)]
             found == Matching(data.streams, resolution)
             failed == "error_downloading"
         IN  IF found = << >>
             THEN IF "no_stream_found" \in lost
                  THEN Caught(VideoErrorState, data, fs, "unknown_tag", failed, lost)
                  ELSE Reply(RESOLUTION, data, fs, "unknown_tag", "no_stream_found")
             ELSE LET stream == Head(found)
                      size == stream.filesize
                      file_path == DownloadPath(stream)
                      at == CHOOSE i \in 1..Len(data.streams) : data.streams[i] = stream
                      read == [data EXCEPT !.sized = @ \cup {at}]
                  IN  IF fault = "filesize" /\ at \notin data.sized
                      THEN Caught(VideoErrorState, data, fs, "download_error", failed, lost)
                      ELSE IF ExceedsLimit(size)
                      THEN IF "exceeds_limit" \in lost
                           THEN Except(VideoErrorState, read, fs, "too_large",
                                       << >>, "none", size, {}, {}, failed, lost)
                           ELSE Result(RESOLUTION, read, fs, "too_large",
                                       <<"exceeds_limit">>, "none", size, {}, {})
                      ELSE IF fault = "download"
                      THEN Except(VideoErrorState, read, fs, "download_error",
                                  << >>, "none", size, {file_path}, {}, failed, lost)
                      ELSE IF fault = "download_partial" \/ "downloaded" \in lost
                      THEN Except(VideoErrorState, read, fs \cup {file_path},
                                  "download_error", << >>, "none", size,
                                  {file_path}, {file_path}, failed, lost)
                      ELSE IF fault = "send"
                      THEN Except(VideoErrorState, read, fs \cup {file_path},
                                  "send_error", <<"downloaded">>, "none", size,
                                  {file_path}, {file_path}, failed, lost)
                      ELSE IF "done" \in lost
                      THEN Except(VideoErrorState, read, fs \ {file_path},
                                  "send_error", <<"downloaded">>, "video", size,
                                  {file_path}, {file_path}, failed, lost)
                      ELSE Result(VideoDoneState, read, fs \ {file_path}, "ok",
                                  <<"downloaded", "done">>, "video", size,
                                  {file_path}, {file_path})

\* the state download_audio returns after the "Done" reply (bot.py:151) and
\* from its except clause (bot.py:154)
AudioDoneState == URL
AudioErrorState == URL

\* bot.py:113-154
download_audio(data, fs, fault, lost) ==
    IF data.video = None
    THEN Said(URL, data, fs, "no_video", "no_video_selected", lost)
    ELSE IF fault = "streams"
    THEN Caught(AudioErrorState, data, fs, "error", "error_processing_audio", lost)
    ELSE IF AudioOnly(data.video) = << >>
    THEN IF "no_audio_stream" \in lost
         THEN Caught(AudioErrorState, data, fs, "no_audio", "error_processing_audio", lost)
         ELSE Reply(URL, data, fs, "no_audio", "no_audio_stream")
    ELSE LET stream == Head(AudioOnly(data.video))
             size == stream.filesize
             file_path == DownloadPath(stream)
             mp3_path == Mp3Path(file_path)
             failed == "error_processing_audio"
         IN  IF fault = "download"
             THEN Except(AudioErrorState, data, fs, "download_error",
                         << >>, "none", NoSize, {file_path}, {}, failed, lost)
             ELSE IF fault = "download_partial"
             THEN Except(AudioErrorState, data, fs \cup {file_path}, "download_error",
                         << >>, "none", NoSize, {file_path}, {file_path}, failed, lost)
             ELSE IF ExceedsLimit(size)
             THEN IF "exceeds_limit" \in lost
                  THEN Except(AudioErrorState, data, fs \cup {file_path},
                              "too_large", << >>, "none", size,
                              {file_path}, {file_path}, failed, lost)
                  ELSE Result(URL, data, (fs \cup {file_path}) \ {file_path},
                              "too_large", <<"exceeds_limit">>, "none", size,
                              {file_path}, {file_path})
             ELSE IF fault = "transcode"
                     \/ (mp3_path = file_path /\ fault \notin {"overwrite", "send"})
             THEN Except(AudioErrorState, data, fs \cup {file_path}, "transcode_error",
                         << >>, "none", size, {file_path}, {file_path}, failed, lost)
             ELSE IF mp3_path = file_path
             THEN IF fault = "send" \/ "message" \in lost
                  THEN Except(AudioErrorState, data, fs \cup {file_path}, "send_error",
                              << >>, "none", size, {file_path}, {file_path},
                              failed, lost)
                  \* sent; os.remove(file_path), then os.remove(mp3_path) raises
                  ELSE Except(AudioErrorState, data, fs \ {file_path}, "send_error",
                              << >>, "audio", size, {file_path}, {file_path},
                              failed, lost)
             ELSE IF fault = "transcode_partial"
             THEN Except(AudioErrorState, data, fs \cup {file_path, mp3_path},
                         "transcode_error", << >>, "none", size,
                         {file_path}, {file_path, mp3_path}, failed, lost)
             ELSE IF fault = "send" \/ "message" \in lost
             THEN Except(AudioErrorState, data, fs \cup {file_path, mp3_path},
                         "send_error", << >>, "none", size,
                         {file_path}, {file_path, mp3_path}, failed, lost)
             ELSE IF "done" \in lost
             THEN Except(AudioErrorState, data, (fs \ {file_path}) \ {mp3_path},
                         "send_error", << >>, "audio", size,
                         {file_path}, {file_path, mp3_path}, failed, lost)
             ELSE Result(AudioDoneState, data, (fs \ {file_path}) \ {mp3_path},
                         "ok", <<"done">>, "audio", size,
                         {file_path}, {file_path, mp3_path})

\* bot.py:157-160: the reply comes before user_data.clear()
cancel(data, fs, lost) ==
    IF "cancelled" \in lost
    THEN Raise(data, fs, "ok", << >>, "none", NoSize, {}, {})
    ELSE Reply(END, EmptyData, fs, "ok", "cancelled")

\* bot.py:163-165, the error callback the dispatcher calls with the
\* exception a callback raised: one more reply; when that reply_text raises
\* too, the dispatcher logs it and goes on
error(r, lost) ==
    IF "an_error_occurred" \in lost THEN r
    ELSE [r EXCEPT !.replies = Append(@, "an_error_occurred")]

(***************************************************************************)
(* The dispatcher: ConversationHandler.handle_update runs the callback     *)
(* that check_update picked and stores the state it returned; when the     *)
(* callback raises, the conversation keeps its state and the dispatcher    *)
(* calls the error callback (bot.py:193).  An update no handler takes      *)
(* changes nothing and is answered by nothing.                             *)
(***************************************************************************)
Dispatched(r, lost) == IF r.state = NoState THEN error(r, lost) ELSE r

Handle(key, upd, handler, r) ==
    /\ conversations' = IF r.state = NoState THEN conversations
                        ELSE [conversations EXCEPT ![key] = r.state]
    /\ user_data' = [user_data EXCEPT ![UserOf(key)] = r.data]
    /\ files' = r.files
    /\ last' = [key |-> key, text |-> upd.text, state |-> conversations[key],
                handler |-> handler, outcome |-> r.outcome,
                raised |-> r.state = NoState,
                replies |-> r.replies, sent |-> r.sent, size |-> r.size,
                fetched |-> r.fetched, written |-> r.written]
    /\ UNCHANGED <<senders, updates, refusing, probe>>

\* the replies that may be lost for an update: of a callback with one reply
\* and no try block, of one with a try block, and of download_video
OutagesSaid == Outages({Answers, Callback})
OutagesTried == Outages({Answers, Errors, Callback})
OutagesVideo == Outages({Progress, Answers, Errors, Callback})

Sayable(upd, outages) ==
    IF upd.edited THEN {NoMessage} ELSE IF refusing THEN outages ELSE {{}}

Picked(key, upd, handler) ==
    /\ upd \in updates
    /\ CheckUpdate(conversations[key], upd) = handler

\* what a callback may return and do for an update: one result for each
\* call that raises and each set of lost replies
StartOn(key, upd) ==
    /\ Picked(key, upd, "start")
    /\ \E r \in { Dispatched(start(user_data[UserOf(key)], files, lost), lost) :
                    lost \in Sayable(upd, OutagesSaid) } :
           Handle(key, upd, "start", r)

ReceiveUrlOn(key, upd) ==
    /\ Picked(key, upd, "receive_url")
    /\ \E r \in { Dispatched(receive_url(user_data[UserOf(key)], files,
                                         upd.text[1], fault, lost), lost) :
                    fault \in {"none", "resolve", "title"},
                    lost \in Sayable(upd, OutagesTried) } :
           Handle(key, upd, "receive_url", r)

SelectVideoOn(key, upd) ==
    /\ Picked(key, upd, "select_video")
    /\ \E r \in { Dispatched(select_video(user_data[UserOf(key)], files,
                                          fault, at, lost), lost) :
                    fault \in {"none", "streams", "filesize"},
                    at \in 1..Len(Progressive("A")),
                    lost \in Sayable(upd, OutagesTried) } :
           Handle(key, upd, "select_video", r)

DownloadVideoOn(key, upd) ==
    /\ Picked(key, upd, "download_video")
    /\ \E r \in { Dispatched(download_video(user_data[UserOf(key)], files,
                                            upd.text, fault, lost), lost) :
                    fault \in {"none", "filesize", "download", "download_partial", "send"},
                    lost \in Sayable(upd, OutagesVideo) } :
           Handle(key, upd, "download_video", r)

DownloadAudioOn(key, upd) ==
    /\ Picked(key, upd, "download_audio")
    /\ \E r \in { Dispatched(download_audio(user_data[UserOf(key)], files,
                                            fault, lost), lost) :
                    fault \in Faults \ {"resolve", "title", "filesize"},
                    lost \in Sayable(upd, OutagesTried) } :
           Handle(key, upd, "download_audio", r)

CancelOn(key, upd) ==
    /\ Picked(key, upd, "cancel")
    /\ \E r \in { Dispatched(cancel(user_data[UserOf(key)], files, lost), lost) :
                    lost \in Sayable(upd, OutagesSaid) } :
           Handle(key, upd, "cancel", r)

UnhandledOn(key, upd) ==
    /\ Picked(key, upd, "none")
    /\ last' = [NoUpdate EXCEPT !.key = key, !.text = upd.text,
                                 !.state = conversations[key]]
    /\ UNCHANGED <<conversations, user_data, files, senders, updates, refusing, probe>>

Start ==
    \E key \in senders, upd \in Updates :
        StartOn(key, upd) /\ UNCHANGED <<inbox, running>>

ReceiveUrl ==
    \E key \in senders, upd \in Updates :
        ReceiveUrlOn(key, upd) /\ UNCHANGED <<inbox, running>>

SelectVideo ==
    \E key \in senders, upd \in Updates :
        SelectVideoOn(key, upd) /\ UNCHANGED <<inbox, running>>

DownloadVideo ==
    \E key \in senders, upd \in Updates :
        DownloadVideoOn(key, upd) /\ UNCHANGED <<inbox, running>>

DownloadAudio ==
    \E key \in senders, upd \in Updates :
        DownloadAudioOn(key, upd) /\ UNCHANGED <<inbox, running>>

Cancel ==
    \E key \in senders, upd \in Updates :
        CancelOn(key, upd) /\ UNCHANGED <<inbox, running>>

Unhandled ==
    \E key \in senders, upd \in Updates :
        UnhandledOn(key, upd) /\ UNCHANGED <<inbox, running>>

Next ==
    \/ Start
    \/ ReceiveUrl
    \/ SelectVideo
    \/ DownloadVideo
    \/ DownloadAudio
    \/ Cancel
    \/ Unhandled

Spec == Init /\ [][Next]_vars

\* one user in a private chat and in a group chat; two users; both with the
\* URL A and a text that is no URL
SpecChats == InitChats /\ [][Next]_vars
SpecUsers == InitUsers /\ [][Next]_vars

(***************************************************************************)
(* Properties.  In each state, last.key is the conversation of the update  *)
(* processed last and LastData the user_data of its user.                  *)
(***************************************************************************)
LastData == user_data[UserOf(last.key)]
Ran(handler) == last.handler = handler
Downloads == {"download_video", "download_audio"}

\* C1 (as claimed): for every conversation, the stream catalog
\* (user_data['streams']) is present if and only if the conversation state is
\* RESOLUTION.
CatalogIffResolution ==
    \A key \in senders :
        user_data[UserOf(key)].has_streams <=> conversations[key] = RESOLUTION

\* C1 (amended): whenever a conversation is in RESOLUTION the catalog is present
\* and not empty; the catalog may be present in other states as well.
CatalogWhenResolution ==
    \A key \in senders :
        conversations[key] = RESOLUTION =>
            /\ user_data[UserOf(key)].has_streams
            /\ user_data[UserOf(key)].streams # << >>

\* C1 witness: select_video has just listed the streams and returned RESOLUTION.
CatalogListed ==
    /\ Ran("select_video")
    /\ conversations[last.key] = RESOLUTION
    /\ LastData.has_streams

\* C2 (as claimed): /cancel sent in any state of an open conversation is handled
\* by cancel: user_data is cleared and the conversation is over or awaits a URL.
CancelHandledInEveryState ==
    (last.text = <<"/cancel">> /\ last.state # END) =>
        /\ Ran("cancel")
        /\ LastData = EmptyData
        /\ conversations[last.key] \in {URL, END}

\* C3 (as claimed): when download_video, download_audio or cancel has returned,
\* none of the files the callback wrote is left in the downloads directory.
NoScratchLeft ==
    (last.handler \in Downloads \cup {"cancel"}) => last.written \cap files = {}

\* C4 (as claimed): a selection that passes the size check and whose download or
\* delivery fails moves the conversation to URL.
FailedVideoAwaitsUrl ==
    (Ran("download_video") /\ last.outcome \in {"download_error", "send_error"}) =>
        conversations[last.key] = URL

\* C4 (amended): a selection that passes the size check and whose download or
\* delivery fails leaves the conversation in RESOLUTION; only the delivered one
\* moves it to URL.
FailedVideoStaysInResolution ==
    /\ (Ran("download_video") /\ last.outcome \in {"download_error", "send_error"}) =>
           (last.state = RESOLUTION /\ conversations[last.key] = RESOLUTION)
    /\ (Ran("download_video") /\ last.outcome = "ok") => conversations[last.key] = URL

\* C4 witness: reply_video raised after an admitted stream was downloaded.
VideoDeliveryFailed ==
    /\ Ran("download_video")
    /\ last.outcome = "send_error"
    /\ last.sent = "none"
    /\ last.size >= 0 /\ last.size <= LimitBytes

\* C5 (as claimed): when a stream is rejected for its size, video or audio, no
\* download of it was started and no file was written for it.
RejectedBeforeFetch ==
    (last.handler \in Downloads /\ last.outcome = "too_large") =>
        (last.fetched = {} /\ last.written = {})

(***************************************************************************)
(* The update of a step, read from last', and the catalog it was checked   *)
(* against.                                                                *)
(***************************************************************************)
Arrives(state, texts) ==
    /\ last'.text \in texts
    /\ last'.state = state
    /\ conversations[last'.key] = state

Selectors == { t \in CommandTexts : Len(t) = 2 }

\* what user_data holds under its keys 'video' and 'streams'
Session(data) ==
    [video |-> data.video, has_streams |-> data.has_streams, streams |-> data.streams]

SameSessions == \A u \in Users : Session(user_data'[u]) = Session(user_data[u])

\* the replies of a step: n of them when every reply_text went through, and
\* when the callback raised what the error callback could send
Answered(n) ==
    IF last'.raised THEN Len(last'.replies) <= 1 ELSE Len(last'.replies) = n

RejectedSelection(text) ==
    LET data == user_data[UserOf(last'.key)]
        found == Matching(data.streams, text[2])
    IN  /\ data.video # None /\ data.has_streams
        /\ found = << >> \/ Head(found).filesize > 52428800

\* C6: in RESOLUTION, with a video and a catalog in user_data, a selector whose
\* tag is not in the catalog, or whose stream is larger than 52428800 bytes, is
\* answered by one reply (when Telegram takes the replies of the callback),
\* leaves the conversation in RESOLUTION and the video and the streams of
\* user_data as they were, starts no download and leaves the downloads
\* directory as it was.
RejectedSelectionChangesNothing ==
    [][ \A text \in Selectors :
          (Arrives(RESOLUTION, {text}) /\ RejectedSelection(text)) =>
              /\ Answered(1)
              /\ last'.sent = "none"
              /\ conversations' = conversations
              /\ SameSessions
              /\ files' = files
              /\ last'.fetched = {} /\ last'.written = {} ]_vars

\* C6 witness: /res_720p picked the 720p stream of 52428801 bytes and was
\* turned down.
OversizeSelectionRejected ==
    /\ Ran("download_video")
    /\ last.text = <<"/res", "720p">>
    /\ last.outcome = "too_large"
    /\ last.size = 52428801
    /\ conversations[last.key] = RESOLUTION

(***************************************************************************)
(* The intents a state does not accept: commands other than /cancel in     *)
(* URL, everything but /video, /audio and /cancel in FORMAT, and in        *)
(* RESOLUTION texts and the commands /start, /video and /audio.            *)
(***************************************************************************)
Texts == { u.text : u \in { v \in Updates : ~v.is_command } }

NotAccepted(state) ==
    IF state = URL THEN CommandTexts \ {<<"/cancel">>}
    ELSE IF state = FORMAT
    THEN (CommandTexts \ {<<"/video">>, <<"/audio">>, <<"/cancel">>}) \cup Texts
    ELSE IF state = RESOLUTION
    THEN {<<"/start">>, <<"/video">>, <<"/audio">>} \cup Texts
    ELSE {}

\* C7 (as claimed): an intent the state does not accept leaves the conversation
\* in its state and is answered by exactly one reply.
UnacceptedGetsOneReply ==
    (last.text \in NotAccepted(last.state)) =>
        (conversations[last.key] = last.state /\ Len(last.replies) = 1)

\* C7 (amended): an intent the state does not accept leaves the conversation
\* state, user_data and the downloads directory unchanged; a command in
\* RESOLUTION is answered by one reply (when Telegram takes the replies of
\* the callback), anything else is dropped without a reply.
UnacceptedChangesNothing ==
    [][ \A state \in {URL, FORMAT, RESOLUTION} :
          Arrives(state, NotAccepted(state)) =>
              /\ conversations' = conversations
              /\ user_data' = user_data
              /\ files' = files
              /\ last'.sent = "none"
              /\ IF state = RESOLUTION /\ last'.text \in CommandTexts
                 THEN Ran("download_video")' /\ Answered(1)
                 ELSE Ran("none")' /\ last'.replies = << >> ]_vars

\* C7 witness: /start in the middle of a conversation, dropped in FORMAT.
StartDroppedInFormat ==
    /\ last.text = <<"/start">>
    /\ last.state = FORMAT
    /\ Ran("none")
    /\ conversations[last.key] = FORMAT

\* C8: the size check turns a stream down exactly when it is larger than
\* 52428800 bytes, in download_video and in download_audio.
SizeCheckBoundary ==
    (last.handler \in Downloads /\ last.size # NoSize) =>
        (last.outcome = "too_large" <=> last.size > 52428800)

\* C8 witness: an audio stream of exactly 52428800 bytes went through.
AudioAtLimitAdmitted ==
    /\ Ran("download_audio")
    /\ last.size = 52428800
    /\ last.outcome = "ok"

\* C9 (as claimed): after a delivery the conversation awaits a URL and
\* user_data holds neither the video nor the streams.
DeliveryClearsSession ==
    (last.handler \in Downloads /\ last.outcome = "ok") =>
        (conversations[last.key] = URL /\ LastData = EmptyData)

\* C9 (amended): after a delivery the video, and the streams if there were
\* any, are in user_data as before.  The conversation awaits a URL when the
\* 'Done' reply was sent; when it was refused, the conversation is where the
\* except clause leaves it, in RESOLUTION after download_video and in URL
\* after download_audio, and where it was when the callback raised there.
DeliveryKeepsSession ==
    [][ (last'.handler \in Downloads /\ last'.sent # "none"
         /\ conversations[last'.key] = last'.state) =>
            /\ SameSessions
            /\ user_data'[UserOf(last'.key)].video # None
            /\ conversations'[last'.key] =
                   IF last'.raised THEN last'.state
                   ELSE IF last'.outcome = "ok" THEN URL
                   ELSE IF last'.handler = "download_video" THEN RESOLUTION
                   ELSE URL
            /\ last'.outcome = "ok" => ~last'.raised ]_vars

\* C9 witness: a video was delivered and its catalog is still in user_data.
VideoDelivered ==
    /\ Ran("download_video")
    /\ last.outcome = "ok"
    /\ last.sent = "video"
    /\ LastData.has_streams

\* C10 (as claimed): whatever happens in it, download_audio started from
\* FORMAT leaves the conversation awaiting a URL.
AudioAlwaysAwaitsUrl ==
    (Ran("download_audio") /\ last.state = FORMAT) => conversations[last.key] = URL

\* C11 (as claimed): a callback run for one user leaves the user_data of every
\* other user as it was, and the path stream.download is called for in a
\* download of one user is never the path of the download another user made
\* just before.
SessionsApart ==
    [][ /\ \A u \in Users : u # UserOf(last'.key) => user_data'[u] = user_data[u]
        /\ UserOf(last.key) # UserOf(last'.key) =>
               last.fetched \cap last'.fetched = {} ]_vars

\* C12 (as claimed): after /start, sent in whatever state, the conversation
\* awaits a URL.
StartAwaitsUrl ==
    last.text = <<"/start">> => conversations[last.key] = URL

\* C12 (amended): /start opens a conversation in URL when none is open and
\* its welcome reply is sent; in an open conversation it changes nothing: in
\* URL and FORMAT it is dropped without a reply, in RESOLUTION download_video
\* answers it as an invalid selector.  user_data is never touched by it.
StartOnlyOpens ==
    [][ last'.text = <<"/start">> =>
            /\ user_data' = user_data
            /\ files' = files
            /\ IF conversations[last'.key] = END
               THEN /\ last'.handler = "start"
                    /\ IF last'.raised
                       THEN conversations' = conversations
                       ELSE /\ conversations'[last'.key] = URL
                            /\ last'.replies = <<"welcome">>
               ELSE /\ conversations' = conversations
                    /\ IF conversations[last'.key] = RESOLUTION
                       THEN /\ last'.handler = "download_video"
                            /\ ~last'.raised =>
                                  last'.replies = <<"invalid_resolution_command">>
                       ELSE /\ last'.handler = "none"
                            /\ last'.replies = << >> ]_vars

\* C12 witness: /start sent in RESOLUTION was answered by download_video and
\* the conversation is still in RESOLUTION.
StartTakenAsSelector ==
    /\ last.text = <<"/start">>
    /\ last.state = RESOLUTION
    /\ Ran("download_video")
    /\ conversations[last.key] = RESOLUTION

(***************************************************************************)
(* The enumeration of select_video (bot.py:44) on its own: every list of   *)
(* at most MaxStreams progressive streams, in provider order, and the      *)
(* catalog order_by('resolution').desc() makes of it.                      *)
(***************************************************************************)
MaxStreams == 3

ProbeStreams ==
    { Stream("A", res, fps, size) :
        res \in {None, "360p", "720p"}, fps \in {30, 60}, size \in {MB, 2 * MB} }

ProbeInputs ==
    UNION { [1..n -> ProbeStreams] : n \in 1..MaxStreams }

InitCatalog ==
    /\ Started(PrivateChat, {}, FALSE)
    /\ probe \in { [input |-> in, output |-> << >>, done |-> FALSE] : in \in ProbeInputs }

Enumerate ==
    /\ ~probe.done
    /\ probe' = [probe EXCEPT !.output = OrderByResolutionDesc(probe.input),
                              !.done = TRUE]
    /\ UNCHANGED <<conversations, user_data, files, senders, updates, refusing, last,
                   inbox, running>>

SpecCatalog == InitCatalog /\ [][Enumerate]_vars

\* the order the specification asks for: label, then fps, then size, descending
KeyBefore(s, t) ==
    \/ ResValue(s.resolution) > ResValue(t.resolution)
    \/ /\ s.resolution = t.resolution
       /\ \/ s.fps > t.fps
          \/ s.fps = t.fps /\ s.filesize >= t.filesize

\* C13 (as claimed): the catalog is sorted by resolution descending, entries of
\* equal label by fps descending and then by size descending.
CatalogOrderedByLabelFpsSize ==
    probe.done =>
        \A i, j \in 1..Len(probe.output) :
            i < j => KeyBefore(probe.output[i], probe.output[j])

\* the streams of one label, last in provider order first
RECURSIVE LabelGroups(_, _)
LabelGroups(labels, streams) ==
    IF labels = << >> THEN << >>
    ELSE Reversed(SelectSeq(streams, LAMBDA s : s.resolution = Head(labels)))
         \o LabelGroups(Tail(labels), streams)

\* C13 (amended): the catalog holds the streams that have a resolution, sorted
\* by resolution descending; entries of equal label are in the reverse of the
\* provider's order, whatever their fps and size.
CatalogOrderedByLabelOnly ==
    probe.done =>
        probe.output = LabelGroups(<<"1080p", "720p", "360p", "144p">>, probe.input)

\* C13 witness: a catalog whose first two entries have the same label and the
\* lower fps first.
CatalogWithTie ==
    /\ probe.done
    /\ Len(probe.output) >= 2
    /\ probe.output[1].resolution = probe.output[2].resolution
    /\ probe.output[1].fps < probe.output[2].fps

(***************************************************************************)
(* The update queue and the dispatcher thread (bot.py:174-201).  Updates   *)
(* wait in the queue of the Updater; the dispatcher takes them one by one  *)
(* and runs the callback itself, because no handler of bot.py is           *)
(* registered with run_async: it takes the next update when the callback   *)
(* of the one before has returned.  What an update holds is chosen when it *)
(* is taken.                                                               *)
(***************************************************************************)
MaxPending == 2

\* a dispatcher that hands callbacks to its worker threads (run_async=True)
WorkerFree == Cardinality(running) < 4

\* the dispatcher thread is free to take an update
DispatcherFree == running = {}

Arrive ==
    /\ inbox < MaxPending
    /\ inbox' = inbox + 1
    /\ UNCHANGED <<conversations, user_data, files, senders, updates, refusing, last, probe, running>>

Begin ==
    /\ inbox > 0
    /\ DispatcherFree
    /\ \E key \in senders, upd \in Updates :
           /\ upd \in updates
           /\ running' = running \cup {[key |-> key, upd |-> upd]}
    /\ inbox' = inbox - 1
    /\ UNCHANGED <<conversations, user_data, files, senders, updates, refusing, last, probe>>

Finish ==
    \E r \in running :
        /\ \/ StartOn(r.key, r.upd)
           \/ ReceiveUrlOn(r.key, r.upd)
           \/ SelectVideoOn(r.key, r.upd)
           \/ DownloadVideoOn(r.key, r.upd)
           \/ DownloadAudioOn(r.key, r.upd)
           \/ CancelOn(r.key, r.upd)
           \/ UnhandledOn(r.key, r.upd)
        /\ running' = running \ {r}
        /\ UNCHANGED inbox

NextDispatch ==
    \/ Arrive
    \/ Begin
    \/ Finish

InitDispatch ==
    Started(PrivateChat, Sending({"A", BadRef}), TRUE) /\ probe = NoProbe

SpecDispatch == InitDispatch /\ [][NextDispatch]_vars

\* C14: at most one update of a conversation is in the hands of a callback at
\* a time: an update that arrives while a callback runs stays in the queue
\* until the callback has returned.
OneCallbackAtATime ==
    \A key \in Keys : Cardinality({ r \in running : r.key = key }) <= 1

\* C14 witness: an update waits in the queue while a callback runs.
UpdateWaitsForCallback ==
    /\ inbox > 0
    /\ running # {}
    /\ \E r \in running : conversations[r.key] = RESOLUTION

\* C15 (as claimed): a text message in URL that names a video the provider
\* resolves moves the conversation to FORMAT with user_data['video'] set to
\* that video; one that cannot be resolved gets the error reply and the
\* conversation stays in URL.
ResolvedTextAwaitsFormat ==
    [][ Ran("receive_url")' =>
          /\ last'.outcome \in {"ok", "reply_error"} =>
                /\ conversations'[last'.key] = FORMAT
                /\ user_data'[UserOf(last'.key)].video = last'.text[1]
          /\ last'.outcome = "error" =>
                /\ conversations'[last'.key] = URL
                /\ last'.replies = <<"error_invalid_url">> ]_vars

\* C15 (amended): a text message in URL that names a video the provider
\* resolves stores the video in user_data; the conversation moves to FORMAT
\* when the 'Got it' reply is sent, and when that reply is refused the
\* conversation stays in URL with the error reply.  One that cannot be
\* resolved leaves the conversation in URL with the error reply.  When the
\* error reply is refused too, or the message is an edited one, the callback
\* raises and the conversation stays in URL.
TextResolvesOrStays ==
    [][ Ran("receive_url")' =>
          /\ last'.state = URL
          /\ last'.text \in Texts
          /\ last'.outcome \in {"ok", "reply_error", "error", "no_message"}
          /\ last'.outcome = "ok" =>
                /\ ~last'.raised
                /\ conversations'[last'.key] = FORMAT
                /\ last'.replies = <<"got_it">>
          /\ last'.outcome \in {"ok", "reply_error"} =>
                /\ last'.text[1] \in Refs
                /\ user_data'[UserOf(last'.key)].video = last'.text[1]
          /\ last'.outcome # "ok" =>
                /\ conversations'[last'.key] = URL
                /\ ~last'.raised => last'.replies = <<"error_invalid_url">>
          /\ last'.outcome = "no_message" =>
                /\ last'.raised
                /\ user_data' = user_data
          /\ last'.text[1] = BadRef => last'.outcome \in {"error", "no_message"} ]_vars

\* C15 witness: the video was resolved and stored, the 'Got it' reply was
\* refused, the error reply was sent and the conversation is in URL.
ResolvedTextStaysInUrl ==
    /\ Ran("receive_url")
    /\ last.outcome = "reply_error"
    /\ ~last.raised
    /\ last.replies = <<"error_invalid_url">>
    /\ LastData.video = last.text[1]
    /\ conversations[last.key] = URL

\* C16: with one conversation, every command that arrives in RESOLUTION
\* (/cancel and /start too) is handled by download_video, and the conversation
\* leaves RESOLUTION only when download_video has sent the video.
ResolutionLeftOnlyByDelivery ==
    [][ /\ Arrives(RESOLUTION, CommandTexts) => Ran("download_video")'
        /\ \A key \in senders :
              conversations[key] = RESOLUTION /\ conversations'[key] # RESOLUTION =>
                  /\ last'.key = key
                  /\ Ran("download_video")'
                  /\ last'.outcome = "ok"
                  /\ last'.sent = "video" ]_vars

\* C16 witness: /cancel arrived in RESOLUTION, download_video took it as a
\* selector and the conversation is still in RESOLUTION with its catalog.
CancelTakenAsSelector ==
    /\ last.state = RESOLUTION
    /\ last.text = <<"/cancel">>
    /\ Ran("download_video")
    /\ last.outcome = "invalid_command"
    /\ conversations[last.key] = RESOLUTION
    /\ LastData.has_streams

\* C17: with one conversation, a conversation in FORMAT or RESOLUTION has a
\* video in user_data; one in RESOLUTION has a non-empty stream list whose
\* streams all belong to that video; and download_video never answers 'No
\* video or streams selected'.
SelectionFromCurrentVideo ==
    /\ \A key \in senders :
          LET data == user_data[UserOf(key)]
          IN  /\ conversations[key] \in {FORMAT, RESOLUTION} => data.video \in Refs
              /\ conversations[key] = RESOLUTION =>
                    /\ data.has_streams
                    /\ data.streams # << >>
                    /\ \A i \in 1..Len(data.streams) : data.streams[i].of = data.video
    /\ last.outcome # "no_selection"
    /\ Ran("download_video") =>
          \A path \in last.fetched : path = Title(LastData.video) \o <<".mp4">>

\* C17 witness: a file of video A is in the downloads directory, left by a
\* failed download of this run or of an earlier one; video C was sent and its
\* streams were listed: the conversation is in RESOLUTION with the streams of
\* C.
SecondVideoListed ==
    /\ Ran("select_video")
    /\ last.outcome = "ok"
    /\ conversations[last.key] = RESOLUTION
    /\ LastData.video = "C"
    /\ LastData.streams = OrderByResolutionDesc(Progressive("C"))
    /\ \E path \in files : Head(path) = Head(Title("A"))

\* C18 (as claimed): in download_audio the path of the mp3 file differs from
\* the path of the downloaded file, whatever the extension of the audio
\* stream; and a run that sent the audio wrote two files, removed both and
\* ended with the 'Done' reply.
Mp3PathDiffers ==
    Ran("download_audio") =>
        /\ \A file_path \in last.fetched : Mp3Path(file_path) # file_path
        /\ last.sent = "audio" =>
              /\ Cardinality(last.written) = 2
              /\ last.written \cap files = {}
              /\ last.replies = <<"done">>

Sent(state, text) ==
    /\ Arrives(state, {text})
    /\ user_data[UserOf(last'.key)].video # None
    /\ user_data[UserOf(last'.key)].has_streams

\* C19: the command the listing shows for an entry, a stream of the stored
\* list, finds a stream of the list with the resolution of the entry; the
\* list holds no stream without a resolution, so no entry is shown as
\* 'Unknown', and /res_Unknown finds none
\* (of an edited message the callback cannot read the command).
ListedResolutionFindsStream ==
    [][ \A text \in Selectors :
          LET streams == user_data[UserOf(last'.key)].streams
              entries == { i \in 1..Len(streams) : ListedCommand(streams[i]) = text }
          IN  Sent(RESOLUTION, text) =>
                /\ Ran("download_video")'
                /\ \A i \in 1..Len(streams) : streams[i].resolution # None
                /\ (entries # {} /\ last'.outcome # "no_message") =>
                      /\ last'.outcome \notin {"unknown_tag", "invalid_command"}
                      /\ \E i \in entries : streams[i].filesize = last'.size
                /\ (text[2] = "Unknown" /\ last'.outcome # "no_message") =>
                      last'.outcome = "unknown_tag" ]_vars

\* C19 witness: /res_360p, shown in the listing of video A, was sent in
\* RESOLUTION and the 360p stream was delivered.
ListedCommandDelivered ==
    /\ Ran("download_video")
    /\ last.state = RESOLUTION
    /\ last.text = <<"/res", "360p">>
    /\ LastData.video = "A"
    /\ last.sent = "video"
    /\ last.size = LimitBytes

\* C20: when several streams of the stored list have the resolution of the
\* selector, download_video takes the first of them in list order: the size
\* check and the download are made for that stream, also when a later stream
\* with the same resolution is within the limit (of an edited message the
\* callback cannot read the command).
FirstWithLabelSelected ==
    [][ \A text \in Selectors :
          LET streams == user_data[UserOf(last'.key)].streams
              entries == { i \in 1..Len(streams) : streams[i].resolution = text[2] }
              first == CHOOSE i \in entries : \A j \in entries : i <= j
          IN  (Sent(RESOLUTION, text) /\ entries # {} /\ last'.outcome # "no_message") =>
                /\ Ran("download_video")'
                /\ last'.size = streams[first].filesize
                /\ ExceedsLimit(streams[first].filesize) =>
                      /\ last'.outcome = "too_large"
                      /\ last'.fetched = {}
                      /\ last'.sent = "none"
                /\ ~ExceedsLimit(streams[first].filesize) =>
                      last'.fetched = {DownloadPath(streams[first])} ]_vars

\* C20 witness: /res_720p was sent for video A, whose list holds a 720p
\* stream over the limit before a 720p stream within it; the selection was
\* rejected for its size.
FirstOfTwoRejected ==
    /\ Ran("download_video")
    /\ last.state = RESOLUTION
    /\ last.text = <<"/res", "720p">>
    /\ last.outcome = "too_large"
    /\ last.size = LimitBytes + 1
    /\ \E i \in 1..Len(LastData.streams) :
          /\ LastData.streams[i].resolution = "720p"
          /\ ~ExceedsLimit(LastData.streams[i].filesize)

====
